---- MODULE Spec2Model ----
(***************************************************************************)
(* A model of moonraker_installer/Installer.py: the argument reconstructor *)
(* (Installer.GetArgumentObjectStr) and the phased installer pipeline      *)
(* (Installer.Run / Installer._RunInternal).                               *)
(*                                                                         *)
(* A Python str is a sequence of one-character strings.  An Optional[str]  *)
(* is a sequence of length at most one: <<>> is None, <<s>> is the str s.  *)
(***************************************************************************)
EXTENDS Integers, Sequences, FiniteSets, TLC

VARIABLES
    payload,       \* the text the wrapper script put on the command line
    argv,          \* sys.argv: the command line after it was split on spaces
    hasRoot,       \* whether the process runs as root / under sudo
    pc,            \* position of _RunInternal: the phase that runs next
    argObjectStr,  \* the local argObjectStr of _RunInternal (Optional[str])
    context,       \* the Context object threaded through the phases
    calls,         \* the calls made so far on Context and the collaborators, in order
    out,           \* what the run printed so far, in order
    logFile,       \* the installer's log file: "none", "open" or "deleted"
    err,           \* the phase that raised ("" while none did)
    cmdFlags,      \* the flags and the target path the command line carries
    host,          \* the host outside the process: clock sync, service, cloud identities
    runResult      \* how Installer.Run ended: "Running" until it does

vars == <<payload, argv, hasRoot, pc, argObjectStr, context, calls, out, logFile, err,
          cmdFlags, host, runResult>>

----------------------------------------------------------------------------
(* Bounds of the model.                                                    *)

\* longest command-line text drawn for the argument reconstructor
MaxLen == 4
\* most arguments that precede the text on the command line (script name included)
MaxLead == 2
\* longest command-line text drawn for a run of the whole pipeline
MaxPayload == 2
\* most runs of the installer on one host
MaxRuns == 2

----------------------------------------------------------------------------
(* Strings and the command line.                                           *)

Chars == {"{", " ", "a"}

Strings(n) == UNION {[1..k -> Chars] : k \in 0..n}

None == <<>>
Some(s) == <<s>>

\* The arguments that come before the text: the script name and plain words.
Leads(n) == UNION {[1..k -> {<<"a">>}] : k \in 1..n}

RECURSIVE SplitFrom(_, _, _)
SplitFrom(s, i, cur) ==
    IF i > Len(s) THEN <<cur>>
    ELSE IF s[i] = " " THEN <<cur>> \o SplitFrom(s, i + 1, <<>>)
    ELSE SplitFrom(s, i + 1, Append(cur, s[i]))

\* s.split(" "): the fragments between single spaces, empty ones included.
Split(s) == SplitFrom(s, 1, <<>>)

StartsWithBrace(arg) == Len(arg) > 0 /\ arg[1] = "{"

\* The for loop of GetArgumentObjectStr from argument i on, jsonStr so far.
RECURSIVE GetArgLoop(_, _, _)
GetArgLoop(args, i, jsonStr) ==
    IF i > Len(args) THEN jsonStr
    ELSE IF StartsWithBrace(args[i]) THEN GetArgLoop(args, i + 1, Some(args[i]))
    ELSE IF jsonStr # None
         THEN GetArgLoop(args, i + 1, Some(jsonStr[1] \o <<" ">> \o args[i]))
    ELSE GetArgLoop(args, i + 1, jsonStr)

GetArgumentObjectStr(args) == GetArgLoop(args, 1, None)

----------------------------------------------------------------------------
(* The Context and the environment.                                        *)

OsTypes == {"Debian", "SonicPad", "K1"}

\* The Context a successful LoadFromArgString returns: no flag parsed yet.
NewContext ==
    [ShowHelp |-> FALSE, IsUpdateMode |-> FALSE, IsUninstallMode |-> FALSE,
     IsObserverSetup |-> FALSE, SkipSudoActions |-> FALSE,
     MoonrakerConfigFilePath |-> "None", OsType |-> "Unknown",
     ExistingPrinterId |-> "None"]

\* What the command line can carry: the flags and the positional target path.
CmdFlagSets ==
    [ShowHelp : BOOLEAN, IsUpdateMode : BOOLEAN, IsUninstallMode : BOOLEAN,
     IsObserverSetup : BOOLEAN, SkipSudoActions : BOOLEAN,
     MoonrakerConfigFilePath : {"None", "printer.cfg"}]

NoFlags ==
    [ShowHelp |-> FALSE, IsUpdateMode |-> FALSE, IsUninstallMode |-> FALSE,
     IsObserverSetup |-> FALSE, SkipSudoActions |-> FALSE,
     MoonrakerConfigFilePath |-> "None"]

\* A host the service was never installed on, and one with an earlier install.
FreshHost ==
    [ntpSync |-> "untouched", services |-> 0, identities |-> 0,
     secretsId |-> "None", linkerGot |-> "-", runs |-> 1]

InstalledHost == [FreshHost EXCEPT !.services = 1, !.identities = 1, !.secretsId = "id1"]

IdNames == <<"id1", "id2", "id3", "id4", "id5", "id6">>

\* TimeSync.EnsureNtpSyncEnabled is best-effort: it enables the clock-sync
\* service or logs a warning, and returns either way.
NtpSyncOutcomes == {"enabled", "failed"}

\* Service.Install installs the service, replacing one that exists.
ServiceInstalled(h) == [h EXCEPT !.services = 1]

\* Uninstall.DoUninstall removes the service.
ServiceRemoved(h) == [h EXCEPT !.services = 0]

\* Linker.Run got the identifier `existing`.
LinkerCalled(h, existing) == [h EXCEPT !.linkerGot = existing]

\* Linker.Run attaches to the identity `existing`, or creates and persists a
\* new one when it is None.
Linked(h, existing) ==
    IF existing = "None"
    THEN [h EXCEPT !.linkerGot = existing, !.identities = @ + 1,
                   !.secretsId = IdNames[h.identities + 1]]
    ELSE [h EXCEPT !.linkerGot = existing]

IsCrealityOs(ctx) == ctx.OsType \in {"SonicPad", "K1"}

\* EnsureRunningAsRootOrSudo raises unless the process is privileged or the
\* debug override is set.
PrivilegeCheckRaises(ctx, root) == ~root /\ ~ctx.SkipSudoActions

----------------------------------------------------------------------------
(* Installer.Run: the except clause, the single catch point.               *)

SuccessTerminal == {"HelpShown", "UpdateComplete", "UninstallComplete", "InstallComplete"}

Terminal == SuccessTerminal \cup {"Failed"}

Diagnostics == <<"Error:Installer failed", "Error:Stack Trace", "Header:contact support">>

\* The call `phase` raised: _RunInternal is left and Run prints the diagnostics.
Raise(phase) ==
    /\ err' = phase
    /\ pc' = "Failed"
    /\ out' = out \o Diagnostics
    /\ runResult' = "ReturnedNone"

\* The call returned: the pipeline goes on with the phase `next`.
Return(next) ==
    /\ pc' = next
    /\ runResult' = IF next \in Terminal THEN "ReturnedNone" ELSE runResult
    /\ UNCHANGED <<err, out>>

\* A call on a collaborator that returns or raises and leaves the Context alone.
Call(at, name, next) ==
    /\ pc = at
    /\ calls' = Append(calls, name)
    /\ \E raised \in BOOLEAN : IF raised THEN Raise(name) ELSE Return(next)
    /\ UNCHANGED <<payload, argv, hasRoot, cmdFlags, host, argObjectStr, context, logFile>>

----------------------------------------------------------------------------
(* Setup phase of _RunInternal.                                            *)
(* The Logger calls only print or touch the log file and are taken to      *)
(* return; the Debug print of lines 67-68 changes no state and is left out.*)

Init ==
    /\ payload \in Strings(MaxPayload)
    /\ argv = <<<<"a">>>> \o Split(payload)
    /\ hasRoot \in BOOLEAN
    /\ pc = "RawArgs"
    /\ argObjectStr = None
    /\ context = NewContext
    /\ calls = <<>>
    /\ out = <<>>
    /\ logFile = "none"
    /\ err = ""
    /\ cmdFlags \in CmdFlagSets
    /\ host \in {FreshHost, InstalledHost}
    /\ runResult = "Running"

\* ReconstructArguments without the `is None` check of line 48.
ReconstructArguments_Unchecked ==
    /\ pc = "RawArgs"
    /\ argObjectStr' = GetArgumentObjectStr(argv)
    /\ Return("LoadFromArgString")
    /\ UNCHANGED <<payload, argv, hasRoot, cmdFlags, host, context, calls, logFile>>

ReconstructArguments ==
    /\ pc = "RawArgs"
    /\ argObjectStr' = GetArgumentObjectStr(argv)
    /\ IF argObjectStr' = None
       THEN Raise("GetArgumentObjectStr")
       ELSE Return("LoadFromArgString")
    /\ UNCHANGED <<payload, argv, hasRoot, cmdFlags, host, context, calls, logFile>>

LoadFromArgString == Call("LoadFromArgString", "Context.LoadFromArgString", "InitFile")

InitFile ==
    /\ pc = "InitFile"
    /\ calls' = Append(calls, "Logger.InitFile")
    /\ logFile' = "open"
    /\ Return("ParseCmdLineArgs")
    /\ UNCHANGED <<payload, argv, hasRoot, cmdFlags, host, argObjectStr, context>>

ParseCmdLineArgs ==
    /\ pc = "ParseCmdLineArgs"
    /\ calls' = Append(calls, "Context.ParseCmdLineArgs")
    /\ \/ /\ Raise("Context.ParseCmdLineArgs")
          /\ UNCHANGED context
       \/ /\ context' = [context EXCEPT
                            !.ShowHelp = cmdFlags.ShowHelp,
                            !.IsUpdateMode = cmdFlags.IsUpdateMode,
                            !.IsUninstallMode = cmdFlags.IsUninstallMode,
                            !.IsObserverSetup = cmdFlags.IsObserverSetup,
                            !.SkipSudoActions = cmdFlags.SkipSudoActions,
                            !.MoonrakerConfigFilePath = cmdFlags.MoonrakerConfigFilePath]
          /\ Return("DetectOsType")
    /\ UNCHANGED <<payload, argv, hasRoot, cmdFlags, host, argObjectStr, logFile>>

DetectOsType ==
    /\ pc = "DetectOsType"
    /\ calls' = Append(calls, "Context.DetectOsType")
    /\ \/ /\ Raise("Context.DetectOsType")
          /\ UNCHANGED context
       \/ /\ \E os \in OsTypes : context' = [context EXCEPT !.OsType = os]
          /\ Return("CheckUser")
    /\ UNCHANGED <<payload, argv, hasRoot, cmdFlags, host, argObjectStr, logFile>>

CheckUserAndCorrectIfRequired ==
    Call("CheckUser", "Permissions.CheckUserAndCorrectIfRequired", "Validate1")

Validate1 == Call("Validate1", "Validate(1)", "ModeHelp")

----------------------------------------------------------------------------
(* Run phase of _RunInternal: the mode branches.                           *)

PrintHelp ==
    /\ pc = "ModeHelp"
    /\ context.ShowHelp
    /\ out' = Append(out, "Help")
    /\ pc' = "HelpShown"
    /\ runResult' = "ReturnedNone"
    /\ UNCHANGED <<payload, argv, hasRoot, cmdFlags, host, argObjectStr, context, calls, logFile, err>>

\* EnsureNtpSyncEnabled reached although the help flag is set.
EnsureNtpSyncEnabled_BeforeHelp ==
    Call("ModeHelp", "TimeSync.EnsureNtpSyncEnabled", "PrivilegeCheck")

\* EnsureNtpSyncEnabled with a failed clock-sync enablement raised to the caller.
EnsureNtpSyncEnabled_Fatal ==
    /\ pc = "ModeHelp"
    /\ ~context.ShowHelp
    /\ calls' = Append(calls, "TimeSync.EnsureNtpSyncEnabled")
    /\ \E outcome \in NtpSyncOutcomes :
          /\ host' = [host EXCEPT !.ntpSync = outcome]
          /\ IF outcome = "failed" THEN Raise("TimeSync.EnsureNtpSyncEnabled")
             ELSE Return("PrivilegeCheck")
    /\ UNCHANGED <<payload, argv, hasRoot, cmdFlags, argObjectStr, context, logFile>>

EnsureNtpSyncEnabled ==
    /\ pc = "ModeHelp"
    /\ ~context.ShowHelp
    /\ calls' = Append(calls, "TimeSync.EnsureNtpSyncEnabled")
    /\ \E outcome \in NtpSyncOutcomes : host' = [host EXCEPT !.ntpSync = outcome]
    /\ Return("PrivilegeCheck")
    /\ UNCHANGED <<payload, argv, hasRoot, cmdFlags, argObjectStr, context, logFile>>

EnsureRunningAsRootOrSudo ==
    /\ pc = "PrivilegeCheck"
    /\ calls' = Append(calls, "Permissions.EnsureRunningAsRootOrSudo")
    /\ IF PrivilegeCheckRaises(context, hasRoot)
       THEN Raise("Permissions.EnsureRunningAsRootOrSudo")
       ELSE Return("ModeBranch")
    /\ UNCHANGED <<payload, argv, hasRoot, cmdFlags, host, argObjectStr, context, logFile>>

\* The update branch without its permission step.
UpdateWithoutFinalPermissions ==
    /\ context.IsUpdateMode
    /\ Call("ModeBranch", "Updater.DoUpdate", "UpdateComplete")

UpdateEnsureFinalPermissions ==
    /\ context.IsUpdateMode
    /\ Call("ModeBranch", "Permissions.EnsureFinalPermissions", "DoUpdate")

\* DoUpdate without the return of line 108: the uninstall check comes next.
DoUpdate_NoReturn ==
    /\ pc = "DoUpdate"
    /\ \/ /\ calls' = Append(calls, "Updater.DoUpdate")
          /\ Raise("Updater.DoUpdate")
       \/ /\ calls' = IF context.IsUninstallMode
                      THEN calls \o <<"Updater.DoUpdate", "Uninstall.DoUninstall">>
                      ELSE Append(calls, "Updater.DoUpdate")
          /\ Return(IF context.IsUninstallMode THEN "UninstallComplete"
                    ELSE "UpdateComplete")
    /\ UNCHANGED <<payload, argv, hasRoot, cmdFlags, host, argObjectStr, context, logFile>>

DoUpdate == Call("DoUpdate", "Updater.DoUpdate", "UpdateComplete")

\* The uninstall branch finalising the permissions first, as the update branch does.
DoUninstall_AfterFinalPermissions ==
    /\ pc = "ModeBranch"
    /\ ~context.IsUpdateMode
    /\ context.IsUninstallMode
    /\ calls' = calls \o <<"Permissions.EnsureFinalPermissions", "Uninstall.DoUninstall">>
    /\ \E raised \in BOOLEAN :
          IF raised THEN Raise("Uninstall.DoUninstall") ELSE Return("UninstallComplete")
    /\ UNCHANGED <<payload, argv, hasRoot, cmdFlags, host, argObjectStr, context, logFile>>

\* The uninstall branch taken without looking at the update flag.
DoUninstall_IgnoresUpdateFlag ==
    /\ pc = "ModeBranch"
    /\ context.IsUninstallMode
    /\ calls' = Append(calls, "Uninstall.DoUninstall")
    /\ \/ /\ Raise("Uninstall.DoUninstall")
          /\ UNCHANGED host
       \/ /\ host' = ServiceRemoved(host)
          /\ Return("UninstallComplete")
    /\ UNCHANGED <<payload, argv, hasRoot, cmdFlags, argObjectStr, context, logFile>>

DoUninstall ==
    /\ pc = "ModeBranch"
    /\ ~context.IsUpdateMode
    /\ context.IsUninstallMode
    /\ calls' = Append(calls, "Uninstall.DoUninstall")
    /\ \/ /\ Raise("Uninstall.DoUninstall")
          /\ UNCHANGED host
       \/ /\ host' = ServiceRemoved(host)
          /\ Return("UninstallComplete")
    /\ UNCHANGED <<payload, argv, hasRoot, cmdFlags, argObjectStr, context, logFile>>

----------------------------------------------------------------------------
(* Run phase of _RunInternal: the install pipeline.                        *)

\* A discovery call: it returns with the target resolved on the Context.
Discover(name) ==
    /\ pc = "ModeBranch"
    /\ ~context.IsUpdateMode
    /\ ~context.IsUninstallMode
    /\ calls' = Append(calls, name)
    /\ \/ /\ Raise(name)
          /\ UNCHANGED context
       \/ /\ context' = [context EXCEPT !.MoonrakerConfigFilePath = "printer.cfg"]
          /\ Return("Validate2")
    /\ UNCHANGED <<payload, argv, hasRoot, cmdFlags, host, argObjectStr, logFile>>

ObserverDiscovery ==
    /\ context.IsObserverSetup
    /\ Discover("DiscoveryObserver.ObserverDiscovery")

FindTargetMoonrakerFiles ==
    /\ ~context.IsObserverSetup
    /\ Discover("Discovery.FindTargetMoonrakerFiles")

\* The `context is None` test of lines 128-129 can never be true here: the
\* name context is bound since line 52 and the discovery calls do not rebind it.
Validate2 == Call("Validate2", "Validate(2)", "Configure")

\* Configure.Run followed directly by the frontend setup, Validate(3) left out.
ConfigureRun_SkipsValidate3 == Call("Configure", "Configure.Run", "Frontend")

ConfigureRun == Call("Configure", "Configure.Run", "Validate3")

Validate3 == Call("Validate3", "Validate(3)", "Frontend")

DoFrontendSetup == Call("Frontend", "Frontend.DoFrontendSetup", "GetPrinterId")

\* The lookup called and its result not recorded on the Context.
GetPrinterId_ResultDropped ==
    Call("GetPrinterId", "Linker.GetPrinterIdFromServiceSecretsConfigFile", "Validate4")

GetPrinterIdFromServiceSecretsConfigFile ==
    /\ pc = "GetPrinterId"
    /\ calls' = Append(calls, "Linker.GetPrinterIdFromServiceSecretsConfigFile")
    /\ \/ /\ Raise("Linker.GetPrinterIdFromServiceSecretsConfigFile")
          /\ UNCHANGED context
       \/ /\ context' = [context EXCEPT !.ExistingPrinterId = host.secretsId]
          /\ Return("Validate4")
    /\ UNCHANGED <<payload, argv, hasRoot, cmdFlags, host, argObjectStr, logFile>>

\* Validate(4) with the core clearing ExistingPrinterId after the lookup.
Validate4_ResetsPrinterId ==
    /\ pc = "Validate4"
    /\ calls' = Append(calls, "Validate(4)")
    /\ context' = [context EXCEPT !.ExistingPrinterId = "None"]
    /\ \E raised \in BOOLEAN :
          IF raised THEN Raise("Validate(4)") ELSE Return("FinalPermissions")
    /\ UNCHANGED <<payload, argv, hasRoot, cmdFlags, host, argObjectStr, logFile>>

\* Validate(4) followed directly by Service.Install, the permission step left out.
Validate4_SkipsFinalPermissions == Call("Validate4", "Validate(4)", "ServiceInstall")

Validate4 == Call("Validate4", "Validate(4)", "FinalPermissions")

InstallEnsureFinalPermissions ==
    Call("FinalPermissions", "Permissions.EnsureFinalPermissions", "ServiceInstall")

\* Service.Install inside a local try/except that goes on after a failure.
ServiceInstall_CatchAndContinue ==
    /\ pc = "ServiceInstall"
    /\ calls' = Append(calls, "Service.Install")
    /\ pc' = "AutoUpdate"
    /\ err' \in {err, "Service.Install"}
    /\ UNCHANGED runResult
    /\ UNCHANGED <<payload, argv, hasRoot, cmdFlags, host, argObjectStr, context, logFile, out>>

ServiceInstall ==
    /\ pc = "ServiceInstall"
    /\ calls' = Append(calls, "Service.Install")
    /\ \/ /\ Raise("Service.Install")
          /\ UNCHANGED host
       \/ /\ host' = ServiceInstalled(host)
          /\ Return("AutoUpdate")
    /\ UNCHANGED <<payload, argv, hasRoot, cmdFlags, argObjectStr, context, logFile>>

\* The update script placed for an observer setup only.
ShouldPlaceUpdateScript_ObserverOnly(ctx) == ctx.IsObserverSetup

\* The condition of line 160.
ShouldPlaceUpdateScript(ctx) == ctx.IsObserverSetup \/ IsCrealityOs(ctx)

PlaceUpdateScriptInRoot ==
    /\ ShouldPlaceUpdateScript(context)
    /\ Call("AutoUpdate", "Updater.PlaceUpdateScriptInRoot", "CronUpdateJob")

EnsureCronUpdateJob ==
    \/ /\ ~ShouldPlaceUpdateScript(context)
       /\ Call("AutoUpdate", "Updater.EnsureCronUpdateJob", "LinkerRun")
    \/ Call("CronUpdateJob", "Updater.EnsureCronUpdateJob", "LinkerRun")

\* Linker.Run tried a second time when its first call raises.
LinkerRun_RetryOnce ==
    /\ pc = "LinkerRun"
    /\ calls' = Append(calls, "Linker.Run")
    /\ \/ /\ \A i \in DOMAIN calls : calls[i] # "Linker.Run"
          /\ host' = LinkerCalled(host, context.ExistingPrinterId)
          /\ UNCHANGED <<pc, err, out, runResult>>
       \/ /\ Raise("Linker.Run")
          /\ host' = LinkerCalled(host, context.ExistingPrinterId)
       \/ /\ host' = Linked(host, context.ExistingPrinterId)
          /\ Return("Success")
    /\ UNCHANGED <<payload, argv, hasRoot, cmdFlags, argObjectStr, context, logFile>>

LinkerRun ==
    /\ pc = "LinkerRun"
    /\ calls' = Append(calls, "Linker.Run")
    /\ \/ /\ Raise("Linker.Run")
          /\ host' = LinkerCalled(host, context.ExistingPrinterId)
       \/ /\ host' = Linked(host, context.ExistingPrinterId)
          /\ Return("Success")
    /\ UNCHANGED <<payload, argv, hasRoot, cmdFlags, argObjectStr, context, logFile>>

SuccessBanner ==
    /\ pc = "Success"
    /\ out' = Append(out, "Banner")
    /\ pc' = "LogCleanup"
    /\ UNCHANGED runResult
    /\ UNCHANGED <<payload, argv, hasRoot, cmdFlags, host, argObjectStr, context, calls, logFile, err>>

\* The log file deleted at the end of an install on every OS.
LogCleanup_AnyOs ==
    /\ pc = "LogCleanup"
    /\ calls' = Append(calls, "Logger.DeleteLogFile")
    /\ logFile' = "deleted"
    /\ pc' = "InstallComplete"
    /\ runResult' = "ReturnedNone"
    /\ UNCHANGED <<payload, argv, hasRoot, cmdFlags, host, argObjectStr, context, out, err>>

LogCleanup ==
    /\ pc = "LogCleanup"
    /\ IF context.OsType = "SonicPad" \/ context.OsType = "K1"
       THEN /\ calls' = Append(calls, "Logger.DeleteLogFile")
            /\ logFile' = "deleted"
       ELSE UNCHANGED <<calls, logFile>>
    /\ pc' = "InstallComplete"
    /\ runResult' = "ReturnedNone"
    /\ UNCHANGED <<payload, argv, hasRoot, cmdFlags, host, argObjectStr, context, out, err>>

----------------------------------------------------------------------------

Next ==
    \/ ReconstructArguments
    \/ LoadFromArgString
    \/ InitFile
    \/ ParseCmdLineArgs
    \/ DetectOsType
    \/ CheckUserAndCorrectIfRequired
    \/ Validate1
    \/ PrintHelp
    \/ EnsureNtpSyncEnabled
    \/ EnsureRunningAsRootOrSudo
    \/ UpdateEnsureFinalPermissions
    \/ DoUpdate
    \/ DoUninstall
    \/ ObserverDiscovery
    \/ FindTargetMoonrakerFiles
    \/ Validate2
    \/ ConfigureRun
    \/ Validate3
    \/ DoFrontendSetup
    \/ GetPrinterIdFromServiceSecretsConfigFile
    \/ Validate4
    \/ InstallEnsureFinalPermissions
    \/ ServiceInstall
    \/ PlaceUpdateScriptInRoot
    \/ EnsureCronUpdateJob
    \/ LinkerRun
    \/ SuccessBanner
    \/ LogCleanup

Spec == Init /\ [][Next]_vars

\* The wrapper script runs the installer again after a completed install: a new
\* process on the same host with the same command line.
Rerun ==
    /\ pc = "InstallComplete"
    /\ host.runs < MaxRuns
    /\ host' = [host EXCEPT !.runs = @ + 1]
    /\ pc' = "RawArgs"
    /\ argObjectStr' = None
    /\ context' = NewContext
    /\ calls' = <<>>
    /\ out' = <<>>
    /\ logFile' = "none"
    /\ err' = ""
    /\ runResult' = "Running"
    /\ UNCHANGED <<payload, argv, hasRoot, cmdFlags>>

\* The single thread of the process keeps running until Run returns.
SpecFair == Spec /\ WF_vars(Next)

NextRerun == Next \/ Rerun

SpecRerun == Init /\ [][NextRerun]_vars

\* The argument reconstructor alone, over every command line within the bounds.
InitArgs ==
    /\ payload \in Strings(MaxLen)
    /\ \E lead \in Leads(MaxLead) : argv = lead \o Split(payload)
    /\ hasRoot \in BOOLEAN
    /\ pc = "RawArgs"
    /\ argObjectStr = None
    /\ context = NewContext
    /\ calls = <<>>
    /\ out = <<>>
    /\ logFile = "none"
    /\ err = ""
    /\ cmdFlags = NoFlags
    /\ host = FreshHost
    /\ runResult = "Running"

NextArgs == ReconstructArguments

SpecArgs == InitArgs /\ [][NextArgs]_vars

----------------------------------------------------------------------------
(* Vocabulary of the properties.                                           *)

Invoked(name) == \E i \in DOMAIN calls : calls[i] = name

\* The position of the first call of `name`, 0 when it was never called.
IndexOf(name) ==
    IF Invoked(name) THEN CHOOSE i \in DOMAIN calls :
                              calls[i] = name /\ \A j \in 1..(i - 1) : calls[j] # name
    ELSE 0

\* `name` was called and returned.
Passed(name) == Invoked(name) /\ err # name

\* The calls made after the first call of `name`.
CallsAfter(name) == SubSeq(calls, IndexOf(name) + 1, Len(calls))

HasBraceArg(args) == \E i \in DOMAIN args : StartsWithBrace(args[i])

FirstBraceArg(args) ==
    CHOOSE i \in DOMAIN args :
        StartsWithBrace(args[i]) /\ \A j \in 1..(i - 1) : ~StartsWithBrace(args[j])

\* args[i], ..., args[Len(args)] joined by single spaces.
RECURSIVE JoinFrom(_, _)
JoinFrom(args, i) ==
    IF i >= Len(args) THEN args[i]
    ELSE args[i] \o <<" ">> \o JoinFrom(args, i + 1)

PrivilegeCheck == "Permissions.EnsureRunningAsRootOrSudo"

SetupCalls ==
    <<"Context.LoadFromArgString", "Logger.InitFile", "Context.ParseCmdLineArgs",
      "Context.DetectOsType", "Permissions.CheckUserAndCorrectIfRequired", "Validate(1)">>

SideEffecting ==
    {"TimeSync.EnsureNtpSyncEnabled", "Permissions.EnsureFinalPermissions",
     "Updater.DoUpdate", "Uninstall.DoUninstall",
     "DiscoveryObserver.ObserverDiscovery", "Discovery.FindTargetMoonrakerFiles",
     "Configure.Run", "Frontend.DoFrontendSetup", "Service.Install",
     "Updater.PlaceUpdateScriptInRoot", "Updater.EnsureCronUpdateJob", "Linker.Run"}

----------------------------------------------------------------------------
(* C1 *)

\* C1: when the root/sudo check fails, no side-effecting collaborator call
\* (TimeSync.EnsureNtpSyncEnabled included) was made before it.
C1_PrivilegeGate ==
    err = PrivilegeCheck => \A i \in DOMAIN calls : calls[i] \notin SideEffecting

----------------------------------------------------------------------------
(* C2, C3: the argument reconstructor.                                     *)

\* C2: for a text s that starts with '{', split on single spaces and placed
\* after leading arguments without '{', GetArgumentObjectStr returns exactly s.
C2_RoundTrip ==
    (pc # "RawArgs" /\ StartsWithBrace(payload)) => argObjectStr = Some(payload)

\* C3: GetArgumentObjectStr returns the arguments from the FIRST argument that
\* begins with '{' through the last one, joined by single spaces.
C3_FromFirstBrace ==
    (pc # "RawArgs" /\ HasBraceArg(argv))
        => argObjectStr = Some(JoinFrom(argv, FirstBraceArg(argv)))

----------------------------------------------------------------------------
(* C4 *)

\* C4: the reconstructor returns None exactly when no argument begins with
\* '{', and then the run ends Failed at the reconstruction step: nothing was
\* called, no log file was made, only the diagnostics were printed.
C4_MissingPayload ==
    pc # "RawArgs" =>
        /\ (argObjectStr = None) <=> ~HasBraceArg(argv)
        /\ ~HasBraceArg(argv) =>
              /\ pc = "Failed"
              /\ err = "GetArgumentObjectStr"
              /\ calls = <<>>
              /\ logFile = "none"
              /\ out = Diagnostics

\* A run that failed for want of a payload although a '{' occurs inside an argument.
C4_Witness ==
    /\ pc = "Failed"
    /\ err = "GetArgumentObjectStr"
    /\ \E i \in DOMAIN argv : \E k \in DOMAIN argv[i] : argv[i][k] = "{"

----------------------------------------------------------------------------
(* C5 *)

UpdateCalls == <<"Permissions.EnsureFinalPermissions", "Updater.DoUpdate">>

\* C5: in an update run (update flag set, help flag clear) that passed
\* Validate(1) and the privilege check, the calls after the privilege check
\* are EnsureFinalPermissions then DoUpdate, each once and nothing else; the
\* run ends in UpdateComplete, or in Failed when one of the two raised.
C5_UpdateMode ==
    (context.IsUpdateMode /\ ~context.ShowHelp /\ Passed("Validate(1)")
        /\ Passed(PrivilegeCheck)) =>
        /\ pc \in {"ModeBranch", "DoUpdate", "UpdateComplete", "Failed"}
        /\ pc = "ModeBranch" => CallsAfter(PrivilegeCheck) = <<>>
        /\ pc = "DoUpdate" => CallsAfter(PrivilegeCheck) = SubSeq(UpdateCalls, 1, 1)
        /\ pc = "UpdateComplete" => CallsAfter(PrivilegeCheck) = UpdateCalls
        /\ pc = "Failed" =>
              /\ CallsAfter(PrivilegeCheck) \in {SubSeq(UpdateCalls, 1, 1), UpdateCalls}
              /\ err = calls[Len(calls)]
        /\ err = "" <=> pc # "Failed"

C5_Witness ==
    /\ pc = "UpdateComplete"
    /\ context.IsUninstallMode
    /\ context.IsObserverSetup
    /\ CallsAfter(PrivilegeCheck) = UpdateCalls

----------------------------------------------------------------------------
(* C6 *)

\* C6: in an uninstall run (uninstall flag set, help and update flags clear)
\* that passed Validate(1) and the privilege check, the only call after the
\* privilege check is Uninstall.DoUninstall, once; the run ends in
\* UninstallComplete, or in Failed when DoUninstall raised.
C6_UninstallMode ==
    (context.IsUninstallMode /\ ~context.ShowHelp /\ ~context.IsUpdateMode
        /\ Passed("Validate(1)") /\ Passed(PrivilegeCheck)) =>
        /\ pc \in {"ModeBranch", "UninstallComplete", "Failed"}
        /\ pc = "ModeBranch" => CallsAfter(PrivilegeCheck) = <<>>
        /\ pc # "ModeBranch" => CallsAfter(PrivilegeCheck) = <<"Uninstall.DoUninstall">>
        /\ pc = "Failed" <=> err = "Uninstall.DoUninstall"
        /\ pc = "UninstallComplete" => err = ""

C6_Witness ==
    /\ pc = "UninstallComplete"
    /\ context.IsObserverSetup
    /\ Invoked("Uninstall.DoUninstall")

----------------------------------------------------------------------------
(* C7 *)

\* C7: in a run with the help flag set that passed Validate(1), the usage
\* text is printed and the run ends in HelpShown; nothing is called after
\* Validate(1), whatever the privilege, the target fields and the other flags.
C7_HelpMode ==
    (context.ShowHelp /\ Passed("Validate(1)")) =>
        /\ pc \in {"ModeHelp", "HelpShown"}
        /\ calls = SetupCalls
        /\ err = ""
        /\ out = IF pc = "HelpShown" THEN <<"Help">> ELSE <<>>

C7_Witness ==
    /\ pc = "HelpShown"
    /\ out = <<"Help">>
    /\ ~hasRoot
    /\ ~context.SkipSudoActions
    /\ context.MoonrakerConfigFilePath = "None"
    /\ context.IsUpdateMode
    /\ context.IsUninstallMode

----------------------------------------------------------------------------
(* C8 *)

InstallOnly ==
    {"DiscoveryObserver.ObserverDiscovery", "Discovery.FindTargetMoonrakerFiles",
     "Validate(2)", "Configure.Run", "Validate(3)", "Frontend.DoFrontendSetup",
     "Linker.GetPrinterIdFromServiceSecretsConfigFile", "Validate(4)",
     "Service.Install", "Updater.PlaceUpdateScriptInRoot",
     "Updater.EnsureCronUpdateJob", "Linker.Run"}

\* The mode branches the run has entered.
ModesTaken ==
    {m \in {"Help", "Update", "Uninstall", "Install"} :
        \/ m = "Help" /\ \E i \in DOMAIN out : out[i] = "Help"
        \/ m = "Update" /\ Invoked("Updater.DoUpdate")
        \/ m = "Uninstall" /\ Invoked("Uninstall.DoUninstall")
        \/ m = "Install" /\ \E i \in DOMAIN calls : calls[i] \in InstallOnly}

TerminalOfMode ==
    [Help |-> "HelpShown", Update |-> "UpdateComplete",
     Uninstall |-> "UninstallComplete", Install |-> "InstallComplete"]

C8_OneMode ==
    /\ Cardinality(ModesTaken) <= 1
    /\ ~(Invoked("DiscoveryObserver.ObserverDiscovery")
            /\ Invoked("Discovery.FindTargetMoonrakerFiles"))
    /\ pc \in SuccessTerminal =>
          /\ Cardinality(ModesTaken) = 1
          /\ \A m \in ModesTaken : pc = TerminalOfMode[m]

\* C8: whatever the flags, a run enters at most one mode branch (exactly one
\* when it ends in success, and it ends in that mode's terminal state), and a
\* run that reached a terminal state never leaves it.
C8_ModeExclusivity ==
    /\ []C8_OneMode
    /\ [][(pc \in Terminal) => (pc' = pc)]_vars

C8_Witness ==
    /\ pc = "UninstallComplete"
    /\ context.IsUninstallMode
    /\ ~context.IsUpdateMode
    /\ ModesTaken = {"Uninstall"}

----------------------------------------------------------------------------
(* C9 *)

ValidateCalls == <<"Validate(1)", "Validate(2)", "Validate(3)", "Validate(4)">>

IsValidateCall(c) == \E n \in 1..4 : c = ValidateCalls[n]

\* The generation whose gate must have passed before the call `c`.
GateOf(c) ==
    IF c \in {"DiscoveryObserver.ObserverDiscovery", "Discovery.FindTargetMoonrakerFiles"}
        THEN 1
    ELSE IF c = "Configure.Run" THEN 2
    ELSE IF c \in {"Frontend.DoFrontendSetup",
                   "Linker.GetPrinterIdFromServiceSecretsConfigFile"} THEN 3
    ELSE IF c \in {"Service.Install", "Updater.PlaceUpdateScriptInRoot",
                   "Updater.EnsureCronUpdateJob", "Linker.Run"} THEN 4
    ELSE 0

\* C9: the Validate calls of a run are Validate(1), (2), (3), (4) in this
\* order, each at most once and none skipped, and every gated call comes
\* after its generation's Validate call, which returned.
C9_GenerationGates ==
    /\ LET v == SelectSeq(calls, IsValidateCall)
       IN  v = SubSeq(ValidateCalls, 1, Len(v))
    /\ \A i \in DOMAIN calls :
          GateOf(calls[i]) > 0 =>
              /\ \E j \in 1..(i - 1) : calls[j] = ValidateCalls[GateOf(calls[i])]
              /\ err # ValidateCalls[GateOf(calls[i])]

C9_Witness ==
    /\ pc = "InstallComplete"
    /\ SelectSeq(calls, IsValidateCall) = ValidateCalls
    /\ Invoked("Linker.Run")

----------------------------------------------------------------------------
(* C10 *)

\* C10: a phase that raises ends the run in Failed at once: the raising call
\* is the last call of the run, neither the usage text nor the success banner
\* was printed, and the diagnostics are printed once, by Run, and only then.
C10_FatalPropagation ==
    /\ pc = "Failed" <=> err # ""
    /\ err # "" =>
          /\ out = Diagnostics
          /\ IF err = "GetArgumentObjectStr" THEN calls = <<>>
             ELSE calls # <<>> /\ calls[Len(calls)] = err
    /\ err = "" => \A i \in DOMAIN out : \A k \in DOMAIN Diagnostics : out[i] # Diagnostics[k]

C10_Witness ==
    /\ pc = "Failed"
    /\ err = "Service.Install"
    /\ out = Diagnostics

----------------------------------------------------------------------------
(* C11 *)

\* C11: a run that ends in Failed finishes with a failure outcome (Run raises
\* or exits non-zero) after the diagnostics were printed, a run that ends in
\* a success state finishes with a normal return, so that the outcome of Run
\* tells a failed run from a successful one.
C11_FailureExitStatus ==
    /\ pc = "Failed" => (out = Diagnostics /\ runResult \in {"Raised", "ExitNonZero"})
    /\ pc \in SuccessTerminal => runResult = "ReturnedNone"

----------------------------------------------------------------------------
(* C12 *)

ClockSync == "TimeSync.EnsureNtpSyncEnabled"

----------------------------------------------------------------------------
(* C13 *)

Count(name) == Cardinality({i \in DOMAIN calls : calls[i] = name})

Printed(item) == \E i \in DOMAIN out : out[i] = item

Lookup == "Linker.GetPrinterIdFromServiceSecretsConfigFile"

\* The calls of the finalization, with or without the update script.
FinalizationCalls(place) ==
    <<"Validate(4)", "Permissions.EnsureFinalPermissions", "Service.Install">>
        \o (IF place THEN <<"Updater.PlaceUpdateScriptInRoot">> ELSE <<>>)
        \o <<"Updater.EnsureCronUpdateJob", "Linker.Run">>

\* C13: in a run that reached InstallComplete the calls after the existing-id
\* lookup are Validate(4), EnsureFinalPermissions, Service.Install, the update
\* scheduling and Linker.Run, in this order and each once, then the banner,
\* once; Service.Install never comes before EnsureFinalPermissions returned,
\* Linker.Run and the banner never unless Service.Install returned.
C13_FinalizationOrder ==
    /\ pc = "InstallComplete" =>
          /\ SelectSeq(CallsAfter(Lookup), LAMBDA c : c # "Logger.DeleteLogFile")
                = FinalizationCalls(Invoked("Updater.PlaceUpdateScriptInRoot"))
          /\ \A i \in DOMAIN calls : Count(calls[i]) = 1
          /\ Cardinality({i \in DOMAIN out : out[i] = "Banner"}) = 1
    /\ Invoked("Service.Install") =>
          /\ Passed("Permissions.EnsureFinalPermissions")
          /\ IndexOf("Permissions.EnsureFinalPermissions") < IndexOf("Service.Install")
    /\ Invoked("Linker.Run") =>
          /\ Passed("Service.Install")
          /\ IndexOf("Service.Install") < IndexOf("Linker.Run")
    /\ Printed("Banner") => (Passed("Service.Install") /\ Passed("Linker.Run"))

C13_Witness ==
    /\ pc = "InstallComplete"
    /\ Printed("Banner")
    /\ CallsAfter(Lookup) = FinalizationCalls(FALSE)

----------------------------------------------------------------------------
(* C14 *)

\* C14: once Service.Install returned, PlaceUpdateScriptInRoot is called if
\* and only if the observer flag is set or the OS is a Creality variant, and
\* EnsureCronUpdateJob is called exactly once, after the placement (when there
\* is one and it returned) and before Linker.Run.
C14_AutoUpdateScheduling ==
    /\ Invoked("Updater.PlaceUpdateScriptInRoot") =>
          /\ context.IsObserverSetup \/ IsCrealityOs(context)
          /\ Passed("Service.Install")
          /\ Count("Updater.PlaceUpdateScriptInRoot") = 1
    /\ pc = "CronUpdateJob" => Passed("Updater.PlaceUpdateScriptInRoot")
    /\ Invoked("Updater.EnsureCronUpdateJob") =>
          /\ Passed("Service.Install")
          /\ Count("Updater.EnsureCronUpdateJob") = 1
          /\ Invoked("Updater.PlaceUpdateScriptInRoot")
                <=> (context.IsObserverSetup \/ IsCrealityOs(context))
          /\ Invoked("Updater.PlaceUpdateScriptInRoot") =>
                /\ err # "Updater.PlaceUpdateScriptInRoot"
                /\ IndexOf("Updater.PlaceUpdateScriptInRoot")
                      < IndexOf("Updater.EnsureCronUpdateJob")
    /\ pc \in {"LinkerRun", "Success", "LogCleanup", "InstallComplete"} =>
          Passed("Updater.EnsureCronUpdateJob")
    /\ Invoked("Linker.Run") =>
          /\ Passed("Updater.EnsureCronUpdateJob")
          /\ IndexOf("Updater.EnsureCronUpdateJob") < IndexOf("Linker.Run")

\* A local install on a Creality OS: the script is placed, then the cron job set.
C14_Witness ==
    /\ pc = "InstallComplete"
    /\ ~context.IsObserverSetup
    /\ context.OsType = "SonicPad"
    /\ Invoked("Updater.PlaceUpdateScriptInRoot")
    /\ Invoked("Updater.EnsureCronUpdateJob")

----------------------------------------------------------------------------
(* C15 *)

\* C15: Logger.DeleteLogFile is called only at the end of a successful run on
\* a SonicPad or K1: after the banner, as the last call, once; never in a run
\* that ends in Failed and never on another OS.
C15_LogCleanupSuccessOnly ==
    /\ Invoked("Logger.DeleteLogFile") =>
          /\ pc = "InstallComplete"
          /\ err = ""
          /\ Printed("Banner")
          /\ context.OsType \in {"SonicPad", "K1"}
          /\ calls[Len(calls)] = "Logger.DeleteLogFile"
          /\ Count("Logger.DeleteLogFile") = 1
    /\ logFile = "deleted" <=> Invoked("Logger.DeleteLogFile")
    /\ pc = "Failed" => logFile # "deleted"

C15_Witness ==
    /\ Invoked("Logger.DeleteLogFile")
    /\ context.OsType = "K1"
    /\ logFile = "deleted"

----------------------------------------------------------------------------
(* C16 *)

\* C16: when the install pipeline has completed at least twice on a host,
\* the host has exactly one cloud identity and exactly one registered service;
\* in a run after the first, Linker.Run is called after the existing-id lookup
\* returned and gets a non-null ExistingPrinterId, the one on the Context.
C16_RerunIdempotent ==
    host.runs >= 2 =>
        /\ host.identities = 1
        /\ host.services = 1
        /\ Invoked("Linker.Run") =>
              /\ Passed(Lookup)
              /\ IndexOf(Lookup) < IndexOf("Linker.Run")
              /\ host.linkerGot # "None"
              /\ host.linkerGot = context.ExistingPrinterId

\* The second run completed on a host whose first run created the identity.
C16_Witness ==
    /\ host.runs = 2
    /\ pc = "InstallComplete"
    /\ host.identities = 1
    /\ host.services = 1
    /\ host.linkerGot = "id1"

----------------------------------------------------------------------------
(* C17 *)

\* C17: on a SonicPad or K1 every run that ends in a success state (HelpShown,
\* UpdateComplete, UninstallComplete or InstallComplete) has deleted the log file.
C17_CleanupOnEverySuccess ==
    (pc \in SuccessTerminal /\ context.OsType \in {"SonicPad", "K1"})
        => logFile = "deleted"

----------------------------------------------------------------------------
(* C18 *)

C18_ReadAndForwarded ==
    /\ ~Invoked(Lookup) => context.ExistingPrinterId = "None"
    /\ (context.ShowHelp \/ context.IsUpdateMode \/ context.IsUninstallMode)
          => ~Invoked(Lookup)
    /\ Invoked(Lookup) =>
          /\ Count(Lookup) = 1
          /\ Passed("Frontend.DoFrontendSetup")
          /\ IndexOf("Frontend.DoFrontendSetup") < IndexOf(Lookup)
          /\ Invoked("Validate(4)") => IndexOf(Lookup) < IndexOf("Validate(4)")
          /\ Invoked("Service.Install") => IndexOf(Lookup) < IndexOf("Service.Install")
    /\ (Passed(Lookup) /\ ~Invoked("Linker.Run"))
          => context.ExistingPrinterId = host.secretsId
    /\ Invoked("Linker.Run") => host.linkerGot = context.ExistingPrinterId

\* C18: the core writes Context.ExistingPrinterId only in the lookup step, once,
\* with the value the lookup returns (the persisted identifier), after the
\* frontend setup and before Validate(4) and Service.Install; Linker.Run gets
\* that value; help, update and uninstall runs never call the lookup and
\* leave the field as constructed.
C18_ExistingPrinterId ==
    /\ []C18_ReadAndForwarded
    /\ [][(context'.ExistingPrinterId # context.ExistingPrinterId)
            => (pc = "GetPrinterId" /\ context'.ExistingPrinterId = host.secretsId)]_vars

\* An install over an earlier one: Linker.Run got the identifier the lookup found.
C18_Witness ==
    /\ Passed("Linker.Run")
    /\ context.ExistingPrinterId = "id1"
    /\ host.linkerGot = "id1"

----------------------------------------------------------------------------
(* C19 *)

\* C19: every run reaches one of the terminal states; no call is made twice
\* in a run, and no step is taken from a terminal state.
C19_Termination ==
    /\ <>(pc \in Terminal)
    /\ [](\A i \in DOMAIN calls : Count(calls[i]) = 1)
    /\ [][pc \notin Terminal]_vars

C19_Witness ==
    /\ pc = "UpdateComplete"
    /\ runResult = "ReturnedNone"
    /\ Len(calls) = Len(SetupCalls) + 4

----------------------------------------------------------------------------
(* C20 *)

Updaters ==
    {"Updater.DoUpdate", "Updater.PlaceUpdateScriptInRoot", "Updater.EnsureCronUpdateJob"}

\* C20: the branch is fixed by the order help, update, uninstall, observer
\* install, local install: with the help flag no Updater or Uninstall call is
\* made; with update and uninstall both set only EnsureFinalPermissions and
\* DoUpdate follow the privilege check; a discovery call is made only with
\* help, update and uninstall clear, the observer one exactly when the observer
\* flag is set, and an install run makes exactly one of the two.
C20_FlagPriority ==
    /\ (context.ShowHelp /\ Passed("Validate(1)")) =>
          \A i \in DOMAIN calls : calls[i] \notin Updaters \cup {"Uninstall.DoUninstall"}
    /\ (context.IsUpdateMode /\ context.IsUninstallMode /\ Invoked(PrivilegeCheck)) =>
          /\ ~Invoked("Uninstall.DoUninstall")
          /\ \E n \in 0..2 : CallsAfter(PrivilegeCheck) = SubSeq(UpdateCalls, 1, n)
    /\ Invoked("Uninstall.DoUninstall") =>
          (context.IsUninstallMode /\ ~context.IsUpdateMode /\ ~context.ShowHelp)
    /\ Invoked("Updater.DoUpdate") => (context.IsUpdateMode /\ ~context.ShowHelp)
    /\ Invoked("DiscoveryObserver.ObserverDiscovery") =>
          /\ context.IsObserverSetup
          /\ ~context.ShowHelp /\ ~context.IsUpdateMode /\ ~context.IsUninstallMode
    /\ Invoked("Discovery.FindTargetMoonrakerFiles") =>
          /\ ~context.IsObserverSetup
          /\ ~context.ShowHelp /\ ~context.IsUpdateMode /\ ~context.IsUninstallMode
    /\ Invoked("Validate(2)") =>
          Count("DiscoveryObserver.ObserverDiscovery")
              + Count("Discovery.FindTargetMoonrakerFiles") = 1

\* Update and uninstall both asked for, with the observer flag: the update ran.
C20_Witness ==
    /\ pc = "UpdateComplete"
    /\ context.IsUpdateMode
    /\ context.IsUninstallMode
    /\ ~Invoked("Uninstall.DoUninstall")
    /\ host.services = 1

====
